---- MODULE Spec2Model ----
(***************************************************************************)
(* Model of the contact manager in src/No.2.py: the validated fields       *)
(* (Name, Phone, Birthday), the Record aggregate, the AddressBook mapping, *)
(* the upcoming-birthday query and the command handlers wrapped by         *)
(* input_error.                                                            *)
(*                                                                         *)
(* Strings are sequences of one-character strings, so that length and      *)
(* character classes are computed as the Python code computes them.        *)
(***************************************************************************)
EXTENDS Integers, Sequences, FiniteSets, TLC

VARIABLES
    heap,    \* the Record objects created so far; the index is the object identity
    book,    \* AddressBook.data: the dict as its insertion-ordered <<key, record>> items
    today,   \* the value datetime.today().date() returns
    ticks,   \* days elapsed since the run started
    call,    \* the last operation invoked, with its arguments
    ret,     \* what that operation returned or raised
    pre      \* heap and book as they were when that operation was invoked

vars == <<heap, book, today, ticks, call, ret, pre>>

----------------------------------------------------------------------------
(* Bounds of the model *)

MaxRecords == 3
MaxTicks == 10
MaxArgs == 3

(* Program constants *)

PhoneLen == 10
days_in_advance == 7

----------------------------------------------------------------------------
(* Strings and characters *)

DigitChars == <<"0", "1", "2", "3", "4", "5", "6", "7", "8", "9">>

AsciiDigits == {DigitChars[i] : i \in 1..10}

\* "sup2" stands for the one character U+00B2, for which str.isdigit() is true
UnicodeDigits == AsciiDigits \cup {"sup2"}

DigitVal(c) == (CHOOSE i \in 1..10 : DigitChars[i] = c) - 1

Rep(c, n) == [i \in 1..n |-> c]

\* str.isdigit(): non-empty and every character a digit
IsDigit(s) == Len(s) > 0 /\ \A i \in 1..Len(s) : s[i] \in UnicodeDigits

\* bool(value) of a string
Truthy(s) == Len(s) > 0

None == [y |-> 0, m |-> 0, d |-> 0]

----------------------------------------------------------------------------
(* Field validation *)

\* Field.is_valid, which Name inherits
NameIsValid(value) == Truthy(value)

\* Phone.is_valid
PhoneIsValid(value) == IsDigit(value) /\ Len(value) = PhoneLen

----------------------------------------------------------------------------
(* Calendar arithmetic of datetime.date *)

IsLeap(y) == y % 4 = 0 /\ (y % 100 # 0 \/ y % 400 = 0)

DaysInMonth(y, m) ==
    IF m = 2 THEN (IF IsLeap(y) THEN 29 ELSE 28)
    ELSE IF m \in {4, 6, 9, 11} THEN 30 ELSE 31

\* what the date constructor accepts
IsDate(y, m, d) ==
    /\ y \in 1..9999
    /\ m \in 1..12
    /\ d >= 1
    /\ d <= DaysInMonth(y, m)

DaysBeforeYear(y) ==
    LET p == y - 1 IN p * 365 + (p \div 4) - (p \div 100) + (p \div 400)

RECURSIVE DaysBeforeMonth(_, _)
DaysBeforeMonth(y, m) ==
    IF m = 1 THEN 0 ELSE DaysBeforeMonth(y, m - 1) + DaysInMonth(y, m - 1)

\* date.toordinal()
ToOrdinal(dt) == DaysBeforeYear(dt.y) + DaysBeforeMonth(dt.y, dt.m) + dt.d

\* date.weekday(): 0 = Monday .. 6 = Sunday
Weekday(dt) == (ToOrdinal(dt) + 6) % 7

NextDay(dt) ==
    IF dt.d < DaysInMonth(dt.y, dt.m) THEN [dt EXCEPT !.d = dt.d + 1]
    ELSE IF dt.m < 12 THEN [y |-> dt.y, m |-> dt.m + 1, d |-> 1]
    ELSE [y |-> dt.y + 1, m |-> 1, d |-> 1]

\* date + timedelta(days=n), n >= 0
RECURSIVE AddDays(_, _)
AddDays(dt, n) == IF n = 0 THEN dt ELSE AddDays(NextDay(dt), n - 1)

\* date < date
DateLess(a, b) ==
    \/ a.y < b.y
    \/ a.y = b.y /\ a.m < b.m
    \/ a.y = b.y /\ a.m = b.m /\ a.d < b.d

\* a variant of ReplaceYear that moves 29 February to 28 February instead of raising
ReplaceYearClamped(dt, y) ==
    [y |-> y, m |-> dt.m, d |-> IF dt.d > DaysInMonth(y, dt.m) THEN DaysInMonth(y, dt.m) ELSE dt.d]

\* date.replace(year=y): the new date, or None where the constructor raises ValueError
ReplaceYear(dt, y) ==
    IF IsDate(y, dt.m, dt.d) THEN [y |-> y, m |-> dt.m, d |-> dt.d] ELSE None

DayNames == <<"Monday", "Tuesday", "Wednesday", "Thursday", "Friday", "Saturday", "Sunday">>

\* date.strftime('%A') in the C locale (the program never calls setlocale)
WeekdayName(dt) == DayNames[Weekday(dt) + 1]

----------------------------------------------------------------------------
(* Birthday: datetime.strptime(value, '%d.%m.%Y') and strftime('%d.%m.%Y') *)

Sub(s, a, b) == SubSeq(s, a, b)

NonZeroDigits == AsciiDigits \ {"0"}

\* the %d directive: 3[0-1]|[1-2]\d|0[1-9]|[1-9]| [1-9]
MatchDay(t) ==
    \/ Len(t) = 2 /\ t[1] = "3" /\ t[2] \in {"0", "1"}
    \/ Len(t) = 2 /\ t[1] \in {"1", "2"} /\ t[2] \in AsciiDigits
    \/ Len(t) = 2 /\ t[1] = "0" /\ t[2] \in NonZeroDigits
    \/ Len(t) = 1 /\ t[1] \in NonZeroDigits
    \/ Len(t) = 2 /\ t[1] = " " /\ t[2] \in NonZeroDigits

\* the %m directive: 1[0-2]|0[1-9]|[1-9]
MatchMonth(t) ==
    \/ Len(t) = 2 /\ t[1] = "1" /\ t[2] \in {"0", "1", "2"}
    \/ Len(t) = 2 /\ t[1] = "0" /\ t[2] \in NonZeroDigits
    \/ Len(t) = 1 /\ t[1] \in NonZeroDigits

\* the %Y directive: \d\d\d\d
MatchYear(t) == Len(t) = 4 /\ \A i \in 1..4 : t[i] \in AsciiDigits

\* int() of a matched group (a leading space is skipped)
RECURSIVE ToInt(_)
ToInt(t) ==
    IF Len(t) = 0 THEN 0
    ELSE IF t[Len(t)] = " " THEN 0
    ELSE ToInt(Sub(t, 1, Len(t) - 1)) * 10 + DigitVal(t[Len(t)])

\* the ways the compiled format matches a prefix of s: <<day length, month length>>
FormatMatches(s) ==
    { c \in (1..2) \X (1..2) :
        /\ Len(s) >= c[1] + c[2] + 6
        /\ MatchDay(Sub(s, 1, c[1]))
        /\ s[c[1] + 1] = "."
        /\ MatchMonth(Sub(s, c[1] + 2, c[1] + c[2] + 1))
        /\ s[c[1] + c[2] + 2] = "."
        /\ MatchYear(Sub(s, c[1] + c[2] + 3, c[1] + c[2] + 6)) }

\* the date of the matched groups, None where data remains unconverted after the
\* match or the date does not exist
ConvertMatch(s, c) ==
    IF Len(s) # c[1] + c[2] + 6 THEN None
    ELSE IF IsDate(ToInt(Sub(s, c[1] + c[2] + 3, c[1] + c[2] + 6)),
                   ToInt(Sub(s, c[1] + 2, c[1] + c[2] + 1)),
                   ToInt(Sub(s, 1, c[1])))
    THEN [y |-> ToInt(Sub(s, c[1] + c[2] + 3, c[1] + c[2] + 6)),
          m |-> ToInt(Sub(s, c[1] + 2, c[1] + c[2] + 1)),
          d |-> ToInt(Sub(s, 1, c[1]))]
    ELSE None

StrptimeOf(s, matches) ==
    IF matches = {} THEN None ELSE ConvertMatch(s, CHOOSE c \in matches : TRUE)

\* datetime.strptime(s, '%d.%m.%Y'): the date, or None where it raises ValueError
\* (no match, unconverted data remains, or a date that does not exist)
Strptime(s) == StrptimeOf(s, FormatMatches(s))

\* Birthday.is_valid for a string
BirthdayIsValid(value) == Strptime(value) # None

\* a number zero-padded to a width, as a string
RECURSIVE Digits(_)
Digits(n) == IF n < 10 THEN <<DigitChars[n + 1]>> ELSE Digits(n \div 10) \o <<DigitChars[(n % 10) + 1]>>

Pad(n, w) == IF Len(Digits(n)) >= w THEN Digits(n) ELSE Rep("0", w - Len(Digits(n))) \o Digits(n)

\* strftime('%d.%m.%Y'); the C library pads %Y to four digits on some platforms
\* and does not on others (glibc), so padY is the platform's choice
Strftime(dt, padY) ==
    Pad(dt.d, 2) \o <<".">> \o Pad(dt.m, 2) \o <<".">> \o (IF padY THEN Pad(dt.y, 4) ELSE Digits(dt.y))

\* Birthday.__str__
BirthdayStr(value, padY) == IF value # None THEN Strftime(value, padY) ELSE <<"N", "/", "A">>

----------------------------------------------------------------------------
(* Record *)

\* Record.__init__ after Name(name_str) succeeded
NewRecordObj(name_str) == [name |-> name_str, phones |-> <<>>, birthday |-> None]

Values(phones) == {phones[i] : i \in 1..Len(phones)}

\* Record.find_phone: the position of the first phone with that value, 0 for None
find_phone(rec, phone_number_str) ==
    IF \E i \in 1..Len(rec.phones) : rec.phones[i] = phone_number_str
    THEN CHOOSE i \in 1..Len(rec.phones) :
            /\ rec.phones[i] = phone_number_str
            /\ \A j \in 1..(i - 1) : rec.phones[j] # phone_number_str
    ELSE 0

RemoveAt(s, i) == [k \in 1..(Len(s) - 1) |-> IF k < i THEN s[k] ELSE s[k + 1]]

\* a variant of add_phone without the membership test of line 88
add_phone_nodedup(rec, phone_number_str) ==
    IF ~PhoneIsValid(phone_number_str)
    THEN [rec |-> rec, kind |-> "ValueError", val |-> "invalid_phone"]
    ELSE [rec |-> [rec EXCEPT !.phones = Append(@, phone_number_str)], kind |-> "ok", val |-> "True"]

\* Record.add_phone
add_phone(rec, phone_number_str) ==
    IF ~PhoneIsValid(phone_number_str)
    THEN [rec |-> rec, kind |-> "ValueError", val |-> "invalid_phone"]
    ELSE IF phone_number_str \notin Values(rec.phones)
    THEN [rec |-> [rec EXCEPT !.phones = Append(@, phone_number_str)], kind |-> "ok", val |-> "True"]
    ELSE [rec |-> rec, kind |-> "ok", val |-> "False"]

\* Record.remove_phone
remove_phone(rec, phone_number_str) ==
    LET i == find_phone(rec, phone_number_str)
    IN IF i # 0
       THEN [rec |-> [rec EXCEPT !.phones = RemoveAt(@, i)], kind |-> "ok", val |-> "None"]
       ELSE [rec |-> rec, kind |-> "ValueError", val |-> "phone_not_found"]

\* a variant of edit_phone without the duplicate test of lines 110-111
edit_phone_nodupcheck(rec, old_phone_number_str, new_phone_number_str) ==
    LET i == find_phone(rec, old_phone_number_str)
    IN IF i = 0
       THEN [rec |-> rec, kind |-> "ValueError", val |-> "old_not_found"]
       ELSE IF ~PhoneIsValid(new_phone_number_str)
       THEN [rec |-> rec, kind |-> "ValueError", val |-> "invalid_phone"]
       ELSE [rec |-> [rec EXCEPT !.phones[i] = new_phone_number_str], kind |-> "ok", val |-> "None"]

\* a variant of edit_phone that removes the old phone and appends the new one
edit_phone_moves(rec, old_phone_number_str, new_phone_number_str) ==
    LET i == find_phone(rec, old_phone_number_str)
    IN IF i = 0
       THEN [rec |-> rec, kind |-> "ValueError", val |-> "old_not_found"]
       ELSE IF ~PhoneIsValid(new_phone_number_str)
       THEN [rec |-> rec, kind |-> "ValueError", val |-> "invalid_phone"]
       ELSE IF new_phone_number_str # old_phone_number_str
               /\ new_phone_number_str \in Values(rec.phones)
       THEN [rec |-> rec, kind |-> "ValueError", val |-> "duplicate"]
       ELSE [rec |-> [rec EXCEPT !.phones = Append(RemoveAt(@, i), new_phone_number_str)],
             kind |-> "ok", val |-> "None"]

\* Record.edit_phone
edit_phone(rec, old_phone_number_str, new_phone_number_str) ==
    LET i == find_phone(rec, old_phone_number_str)
    IN IF i = 0
       THEN [rec |-> rec, kind |-> "ValueError", val |-> "old_not_found"]
       ELSE IF ~PhoneIsValid(new_phone_number_str)
       THEN [rec |-> rec, kind |-> "ValueError", val |-> "invalid_phone"]
       ELSE IF new_phone_number_str # old_phone_number_str
               /\ new_phone_number_str \in Values(rec.phones)
       THEN [rec |-> rec, kind |-> "ValueError", val |-> "duplicate"]
       ELSE [rec |-> [rec EXCEPT !.phones[i] = new_phone_number_str], kind |-> "ok", val |-> "None"]

\* Record.add_birthday: Birthday(birthday_str) raises ValueError where is_valid is
\* false, which is where strptime raises; value is what strptime gives
SetBirthday(rec, value) ==
    IF value # None
    THEN [rec |-> [rec EXCEPT !.birthday = value], kind |-> "ok", val |-> "None"]
    ELSE [rec |-> rec, kind |-> "ValueError", val |-> "invalid_birthday"]

add_birthday(rec, birthday_str) == SetBirthday(rec, Strptime(birthday_str))

----------------------------------------------------------------------------
(* Inputs *)

Names == {<<"a">>, <<"b">>}

ValidPhones == {Rep("1", 10), Rep("2", 10), Rep("3", 10), Rep("1", 9) \o <<"sup2">>}

InvalidPhones == {Rep("1", 9), Rep("1", 11), Rep("1", 9) \o <<"x">>, <<>>}

RawPhones == ValidPhones \cup InvalidPhones

\* the dates a run may start on: before the new year and before the end of February,
\* of a leap year and of the year after it
StartDates ==
    {[y |-> 2023, m |-> 12, d |-> 24], [y |-> 2024, m |-> 2, d |-> 22],
     [y |-> 2024, m |-> 12, d |-> 24], [y |-> 2025, m |-> 2, d |-> 22]}

\* 'DD.MM.YYYY' for a day, a month and a year
DMY(d, m, y) == Pad(d, 2) \o <<".">> \o Pad(m, 2) \o <<".">> \o Pad(y, 4)

BirthdayStrs ==
    {DMY(29, 2, 2000), DMY(30, 12, 1990), DMY(31, 12, 1985), DMY(1, 1, 1990),
     DMY(28, 2, 2030), DMY(2, 3, 1999), DMY(27, 12, 1995), DMY(26, 2, 1988)}

BadBirthdayStrs == {DMY(31, 2, 2024)}

Idle == [op |-> "none", rec |-> 0, args |-> <<>>]

NoRet == [kind |-> "none", val |-> "none"]

Snapshot == [heap |-> heap, book |-> book]

----------------------------------------------------------------------------
(* Record operations as steps *)

\* a method of Record r was called and returned or raised out
MethodReturns(r, op, args, out) ==
    /\ heap' = [heap EXCEPT ![r] = out.rec]
    /\ call' = [op |-> op, rec |-> r, args |-> args]
    /\ ret' = [kind |-> out.kind, val |-> out.val]
    /\ pre' = Snapshot
    /\ UNCHANGED <<book, today, ticks>>

AddPhone(r, p) == MethodReturns(r, "add_phone", <<p>>, add_phone(heap[r], p))

RemovePhone(r, p) == MethodReturns(r, "remove_phone", <<p>>, remove_phone(heap[r], p))

EditPhone(r, old, new) == MethodReturns(r, "edit_phone", <<old, new>>, edit_phone(heap[r], old, new))

\* a newly created Record
Init ==
    /\ heap = <<NewRecordObj(<<"a">>)>>
    /\ book = <<>>
    /\ today \in StartDates
    /\ ticks = 0
    /\ call = Idle
    /\ ret = NoRet
    /\ pre = Snapshot

Next ==
    \/ \E r \in DOMAIN heap, p \in RawPhones : AddPhone(r, p)
    \/ \E r \in DOMAIN heap, p \in RawPhones : RemovePhone(r, p)
    \/ \E r \in DOMAIN heap, old \in RawPhones, new \in RawPhones : EditPhone(r, old, new)

Spec == Init /\ [][Next]_vars

----------------------------------------------------------------------------
(* Properties of Record *)

NoDuplicates(ph) == \A i, j \in 1..Len(ph) : ph[i] = ph[j] => i = j

PhonesBefore == pre.heap[call.rec].phones

PhonesAfter == heap[call.rec].phones

\* C1: in every state reachable from a new Record by add_phone, remove_phone and
\* edit_phone calls, successful or failing, no two entries of the phone list have the
\* same value and every entry passes Phone's validation (10 characters, all digits).
C1_PhonesUniqueAndValid ==
    \A r \in DOMAIN heap :
        /\ NoDuplicates(heap[r].phones)
        /\ \A i \in 1..Len(heap[r].phones) : PhoneIsValid(heap[r].phones[i])

\* C1 witness: an edit_phone that replaced a phone of a list of three by another value
C1_Witness ==
    /\ call.op = "edit_phone"
    /\ ret.kind = "ok"
    /\ Len(PhonesAfter) = 3
    /\ call.args[1] # call.args[2]

\* C2: add_phone(p) with a valid p appends p at the end and returns True when p is not
\* in the list, returns False and leaves the list unchanged when it is; an invalid p
\* raises ValueError and leaves the list unchanged. Adding the same valid phone twice to
\* an empty Record gives True then False, with one entry after each call.
C2_AddPhone ==
    call.op = "add_phone" =>
        LET p == call.args[1]
        IN /\ (PhoneIsValid(p) /\ p \notin Values(PhonesBefore)) =>
                  /\ ret = [kind |-> "ok", val |-> "True"]
                  /\ PhonesAfter = PhonesBefore \o <<p>>
           /\ (PhoneIsValid(p) /\ p \in Values(PhonesBefore)) =>
                  /\ ret = [kind |-> "ok", val |-> "False"]
                  /\ PhonesAfter = PhonesBefore
           /\ ~PhoneIsValid(p) =>
                  /\ ret.kind = "ValueError"
                  /\ PhonesAfter = PhonesBefore
           /\ (PhoneIsValid(p) /\ PhonesBefore = <<>>) =>
                  ret.val = "True" /\ Len(PhonesAfter) = 1
           /\ (PhoneIsValid(p) /\ PhonesBefore = <<p>>) =>
                  ret.val = "False" /\ Len(PhonesAfter) = 1

\* C2 witness: the second of two add_phone calls with the same valid phone on an empty
\* Record: it returned False and the list still has the one entry
C2_Witness ==
    /\ call.op = "add_phone"
    /\ PhoneIsValid(call.args[1])
    /\ PhonesBefore = <<call.args[1]>>
    /\ ret = [kind |-> "ok", val |-> "False"]
    /\ PhonesAfter = <<call.args[1]>>

\* C3: edit_phone(old, new) raises when old matches no stored phone (not found), when
\* new is not a valid phone, or when new differs from old and is already in the list
\* (duplicate), and in each case the list is as before the call; otherwise it succeeds,
\* the entry that held old holds new at the same position and every other entry is
\* unchanged.
C3_EditPhone ==
    call.op = "edit_phone" =>
        LET old == call.args[1]
            new == call.args[2]
            found == old \in Values(PhonesBefore)
            dup == new # old /\ new \in Values(PhonesBefore)
        IN /\ ~found => ret = [kind |-> "ValueError", val |-> "old_not_found"]
           /\ (found /\ ~PhoneIsValid(new)) => ret = [kind |-> "ValueError", val |-> "invalid_phone"]
           /\ (found /\ PhoneIsValid(new) /\ dup) => ret = [kind |-> "ValueError", val |-> "duplicate"]
           /\ (found /\ PhoneIsValid(new) /\ ~dup) => ret.kind = "ok"
           /\ ret.kind = "ValueError" => PhonesAfter = PhonesBefore
           /\ ret.kind = "ok" =>
                  /\ Len(PhonesAfter) = Len(PhonesBefore)
                  /\ \E i \in 1..Len(PhonesBefore) :
                        /\ PhonesBefore[i] = old
                        /\ PhonesAfter[i] = new
                        /\ \A j \in 1..Len(PhonesBefore) : j # i => PhonesAfter[j] = PhonesBefore[j]

\* C3 witness: a successful edit of the middle entry of three to a new value
C3_Witness ==
    /\ call.op = "edit_phone"
    /\ ret.kind = "ok"
    /\ Len(PhonesBefore) = 3
    /\ PhonesBefore[2] = call.args[1]
    /\ call.args[1] # call.args[2]
    /\ PhonesAfter[2] = call.args[2]

----------------------------------------------------------------------------
(* AddressBook *)

Keys(items) == {items[i].key : i \in 1..Len(items)}

\* the position of key among the dict's items, 0 when it is not a key
DictGet(items, key) ==
    IF key \in Keys(items)
    THEN CHOOSE i \in 1..Len(items) : items[i].key = key
    ELSE 0

\* a variant of DictSet that adds an item also for a key that is present
DictSetAppend(items, key, r) == Append(items, [key |-> key, rec |-> r])

\* self.data[key] = r: an existing key keeps its place in the order, a new one goes last
DictSet(items, key, r) ==
    IF key \in Keys(items)
    THEN [i \in 1..Len(items) |-> IF items[i].key = key THEN [key |-> key, rec |-> r] ELSE items[i]]
    ELSE Append(items, [key |-> key, rec |-> r])

\* del self.data[key]
DictDel(items, key) == RemoveAt(items, DictGet(items, key))

\* AddressBook.find, self.data.get(name_str): the Record stored, 0 for None
find(items, name_str) ==
    IF name_str \in Keys(items)
    THEN (CHOOSE e \in {items[i] : i \in 1..Len(items)} : e.key = name_str).rec
    ELSE 0

\* Record(name_str): Name's setter raises ValueError on an empty name
NewRecord(name_str) ==
    /\ Len(heap) < MaxRecords
    /\ IF NameIsValid(name_str)
       THEN /\ heap' = Append(heap, NewRecordObj(name_str))
            /\ ret' = [kind |-> "ok", val |-> "Record"]
       ELSE /\ heap' = heap
            /\ ret' = [kind |-> "ValueError", val |-> "invalid_name"]
    /\ call' = [op |-> "Record", rec |-> 0, args |-> <<name_str>>]
    /\ pre' = Snapshot
    /\ UNCHANGED <<book, today, ticks>>

\* AddressBook.add_record; r = 0 stands for an argument that is not a Record
AddRecord(r) ==
    /\ IF r \notin DOMAIN heap
       THEN /\ book' = book
            /\ ret' = [kind |-> "TypeError", val |-> "not_a_record"]
       ELSE /\ book' = DictSet(book, heap[r].name, r)
            /\ ret' = [kind |-> "ok",
                       val |-> IF heap[r].name \in Keys(book) THEN "warned" ELSE "None"]
    /\ call' = [op |-> "add_record", rec |-> r, args |-> <<>>]
    /\ pre' = Snapshot
    /\ UNCHANGED <<heap, today, ticks>>

\* AddressBook.find as a step; the value returned is the Record's identity
Find(name_str) ==
    /\ call' = [op |-> "find", rec |-> find(book, name_str), args |-> <<name_str>>]
    /\ ret' = [kind |-> "ok", val |-> IF find(book, name_str) = 0 THEN "None" ELSE "Record"]
    /\ pre' = Snapshot
    /\ UNCHANGED <<heap, book, today, ticks>>

\* AddressBook.delete
Delete(name_str) ==
    /\ IF name_str \in Keys(book)
       THEN /\ book' = DictDel(book, name_str)
            /\ ret' = [kind |-> "ok", val |-> "None"]
       ELSE /\ book' = book
            /\ ret' = [kind |-> "KeyError", val |-> "contact_not_found"]
    /\ call' = [op |-> "delete", rec |-> 0, args |-> <<name_str>>]
    /\ pre' = Snapshot
    /\ UNCHANGED <<heap, today, ticks>>

\* an empty AddressBook and no Record yet
InitBook ==
    /\ heap = <<>>
    /\ book = <<>>
    /\ today \in StartDates
    /\ ticks = 0
    /\ call = Idle
    /\ ret = NoRet
    /\ pre = Snapshot

NextBook ==
    \/ \E n \in Names \cup {<<>>} : NewRecord(n)
    \/ \E r \in 0..Len(heap) : AddRecord(r)
    \/ \E n \in Names : Find(n)
    \/ \E n \in Names : Delete(n)

SpecBook == InitBook /\ [][NextBook]_vars

\* C4: add_record(r) with r.name already a key does not raise, keeps the number of
\* entries, leaves every other entry as it was, and afterwards find(r.name) is r itself;
\* find returns what is stored under the name; and the book never holds two entries
\* for one name string, each entry being stored under its Record's name.
C4_AddRecordOverwrites ==
    /\ \A i, j \in 1..Len(book) : book[i].key = book[j].key => i = j
    /\ \A i \in 1..Len(book) : heap[book[i].rec].name = book[i].key
    /\ (call.op = "add_record" /\ call.rec \in DOMAIN heap
            /\ heap[call.rec].name \in Keys(pre.book)) =>
          /\ ret.kind = "ok"
          /\ Len(book) = Len(pre.book)
          /\ \A i \in 1..Len(pre.book) :
                pre.book[i].key # heap[call.rec].name => book[i] = pre.book[i]
          /\ find(book, heap[call.rec].name) = call.rec
    /\ call.op = "find" =>
          \/ call.rec = 0 /\ call.args[1] \notin Keys(book)
          \/ \E i \in 1..Len(book) : book[i] = [key |-> call.args[1], rec |-> call.rec]

\* C4 witness: add_record of a second Record object with the name of a stored one, in a
\* book that also holds another name
C4_Witness ==
    /\ call.op = "add_record"
    /\ call.rec \in DOMAIN heap
    /\ find(pre.book, heap[call.rec].name) \notin {0, call.rec}
    /\ Len(pre.book) = 2
    /\ ret = [kind |-> "ok", val |-> "warned"]
    /\ find(book, heap[call.rec].name) = call.rec

----------------------------------------------------------------------------
(* AddressBook.get_upcoming_birthdays *)

\* lines 166-169: birthday_this_year, or None where date.replace raises ValueError
RollForward(bday_date, td, this) ==
    IF this = None THEN None
    ELSE IF DateLess(this, td) THEN ReplaceYear(bday_date, td.y + 1)
    ELSE this

BirthdayThisYear(bday_date, td) == RollForward(bday_date, td, ReplaceYear(bday_date, td.y))

\* a variant of ShiftFrom that moves a Saturday by one day only
ShiftFromOneDay(birthday_this_year, bday_weekday) ==
    IF bday_weekday = 5 THEN AddDays(birthday_this_year, 1)
    ELSE IF bday_weekday = 6 THEN AddDays(birthday_this_year, 1)
    ELSE birthday_this_year

\* lines 178-182
ShiftFrom(birthday_this_year, bday_weekday) ==
    IF bday_weekday = 5 THEN AddDays(birthday_this_year, 2)
    ELSE IF bday_weekday = 6 THEN AddDays(birthday_this_year, 1)
    ELSE birthday_this_year

\* lines 175-182: the move of a weekend birthday to Monday
CongratsDate(birthday_this_year) == ShiftFrom(birthday_this_year, Weekday(birthday_this_year))

\* lines 171-173
InWindow(birthday_this_year, td) ==
    LET delta_days == ToOrdinal(birthday_this_year) - ToOrdinal(td)
    IN 0 <= delta_days /\ delta_days < days_in_advance

\* lines 186-190: the entry appended for a record; the date is kept as a date, the
\* code keeps its '%d.%m.%Y' rendering and never reads it back
EntryOn(rec, congrats_date) ==
    [name |-> rec.name,
     congratulation_date |-> congrats_date,
     congratulation_weekday |-> WeekdayName(congrats_date)]

UpcomingEntry(rec, birthday_this_year) == EntryOn(rec, CongratsDate(birthday_this_year))

\* lines 164-190 for one record: skip it, raise, or append its entry
BodyWith(rec, td, birthday_this_year) ==
    IF birthday_this_year = None THEN [tag |-> "raise", entry |-> None]
    ELSE IF InWindow(birthday_this_year, td)
    THEN [tag |-> "append", entry |-> UpcomingEntry(rec, birthday_this_year)]
    ELSE [tag |-> "skip", entry |-> None]

LoopBody(rec, td) ==
    IF rec.birthday = None THEN [tag |-> "skip", entry |-> None]
    ELSE BodyWith(rec, td, BirthdayThisYear(rec.birthday, td))

\* lines 163-190: the loop over self.data.values() from position i on
RECURSIVE UpcomingLoop(_, _, _, _, _)
RECURSIVE LoopFrom(_, _, _, _, _, _)
LoopFrom(items, hp, td, i, acc, body) ==
    IF body.tag = "raise" THEN [kind |-> "ValueError", upcoming |-> <<>>]
    ELSE IF body.tag = "append" THEN UpcomingLoop(items, hp, td, i + 1, Append(acc, body.entry))
    ELSE UpcomingLoop(items, hp, td, i + 1, acc)

UpcomingLoop(items, hp, td, i, acc) ==
    IF i > Len(items) THEN [kind |-> "ok", upcoming |-> acc]
    ELSE LoopFrom(items, hp, td, i, acc, LoopBody(hp[items[i].rec], td))

\* grouped_birthdays[day]: the names of the entries with that weekday, in order
RECURSIVE NamesOn(_, _, _)
NamesOn(upcoming, day, k) ==
    IF k = 0 THEN <<>>
    ELSE IF upcoming[k].congratulation_weekday = day
    THEN Append(NamesOn(upcoming, day, k - 1), upcoming[k].name)
    ELSE NamesOn(upcoming, day, k - 1)

week_order == <<"Monday", "Tuesday", "Wednesday", "Thursday", "Friday">>

\* lines 192-208: group by weekday name and emit the groups of week_order; a group
\* is kept as its day and its names, the code joins them into "day: name, name"
RECURSIVE OutputList(_, _)
OutputList(upcoming, k) ==
    IF k > Len(week_order) THEN <<>>
    ELSE IF \E i \in 1..Len(upcoming) : upcoming[i].congratulation_weekday = week_order[k]
    THEN <<[day |-> week_order[k], names |-> NamesOn(upcoming, week_order[k], Len(upcoming))]>>
            \o OutputList(upcoming, k + 1)
    ELSE OutputList(upcoming, k + 1)

\* lines 192-208 applied to what the loop gave
Grouped(loop) ==
    [kind |-> loop.kind,
     upcoming |-> loop.upcoming,
     output_list |-> IF loop.kind = "ok" THEN OutputList(loop.upcoming, 1) ELSE <<>>]

\* AddressBook.get_upcoming_birthdays: the list returned, or ValueError
get_upcoming_birthdays(items, hp, td) == Grouped(UpcomingLoop(items, hp, td, 1, <<>>))

QueryReturns(out) ==
    /\ call' = [op |-> "get_upcoming_birthdays", rec |-> 0, args |-> <<>>]
    /\ ret' = [kind |-> out.kind,
               val |-> [upcoming |-> out.upcoming, output_list |-> out.output_list]]
    /\ pre' = Snapshot
    /\ UNCHANGED <<heap, book, today, ticks>>

\* a call of get_upcoming_birthdays on the book
GetUpcomingBirthdays == QueryReturns(get_upcoming_birthdays(book, heap, today))

\* a day passes: datetime.today() returns the next date
Tick ==
    /\ ticks < MaxTicks
    /\ ticks' = ticks + 1
    /\ today' = NextDay(today)
    /\ call' = Idle
    /\ ret' = NoRet
    /\ pre' = Snapshot
    /\ UNCHANGED <<heap, book>>

----------------------------------------------------------------------------
(* Command handlers, each wrapped by input_error: an exception raised inside becomes *)
(* the error text returned, which kind records                                       *)

Unchanged(hp, items, kind, val) == [heap |-> hp, book |-> items, kind |-> kind, val |-> val]

\* lines 253-265: what add_phone gave decides the message; new tells a contact
\* created by this call
AddContactResult(hp1, items1, r, new, out) ==
    [heap |-> [hp1 EXCEPT ![r] = out.rec],
     book |-> items1,
     kind |-> out.kind,
     val |-> IF out.kind # "ok" THEN out.val
             ELSE IF new /\ out.val = "True" THEN "contact_added_with_phone"
             ELSE IF new THEN "contact_added"
             ELSE IF out.val = "True" THEN "phone_added"
             ELSE "phone_exists"]

\* lines 246-253: the record found, or a new one created and added to the book, and
\* then add_phone on it
AddContactTo(hp, items, name, phone_str, found) ==
    IF found # 0 THEN AddContactResult(hp, items, found, FALSE, add_phone(hp[found], phone_str))
    ELSE IF ~NameIsValid(name) THEN Unchanged(hp, items, "ValueError", "invalid_name")
    ELSE AddContactResult(Append(hp, NewRecordObj(name)), DictSet(items, name, Len(hp) + 1),
                          Len(hp) + 1, TRUE, add_phone(NewRecordObj(name), phone_str))

\* add_contact
add_contact(args, hp, items) ==
    IF Len(args) # 2 THEN Unchanged(hp, items, "ValueError", "usage")
    ELSE AddContactTo(hp, items, args[1], args[2], find(items, args[1]))

\* a method of record r called by a handler returned or raised out
Edited(hp, items, r, out, message) ==
    [heap |-> [hp EXCEPT ![r] = out.rec], book |-> items, kind |-> out.kind,
     val |-> IF out.kind = "ok" THEN message ELSE out.val]

ChangeFound(args, hp, items, r) ==
    IF r = 0 THEN Unchanged(hp, items, "KeyError", "contact_not_found")
    ELSE Edited(hp, items, r, edit_phone(hp[r], args[2], args[3]), "phone_changed")

\* change_contact
change_contact(args, hp, items) ==
    IF Len(args) # 3 THEN Unchanged(hp, items, "ValueError", "usage")
    ELSE ChangeFound(args, hp, items, find(items, args[1]))

ShowPhoneFound(hp, items, r) ==
    IF r = 0 THEN Unchanged(hp, items, "KeyError", "contact_not_found")
    ELSE IF hp[r].phones = <<>> THEN Unchanged(hp, items, "ok", "no_phones")
    ELSE Unchanged(hp, items, "ok", "phones")

\* show_phone
show_phone(args, hp, items) ==
    IF Len(args) # 1 THEN Unchanged(hp, items, "ValueError", "usage")
    ELSE ShowPhoneFound(hp, items, find(items, args[1]))

AddBirthdayFound(args, hp, items, r) ==
    IF r = 0 THEN Unchanged(hp, items, "KeyError", "contact_not_found")
    ELSE Edited(hp, items, r, add_birthday(hp[r], args[2]), "birthday_added")

\* the add_birthday handler
add_birthday_cmd(args, hp, items) ==
    IF Len(args) # 2 THEN Unchanged(hp, items, "ValueError", "usage")
    ELSE AddBirthdayFound(args, hp, items, find(items, args[1]))

ShowBirthdayFound(hp, items, r) ==
    IF r = 0 THEN Unchanged(hp, items, "KeyError", "contact_not_found")
    ELSE IF hp[r].birthday = None THEN Unchanged(hp, items, "ok", "no_birthday")
    ELSE Unchanged(hp, items, "ok", "birthday")

\* show_birthday
show_birthday(args, hp, items) ==
    IF Len(args) # 1 THEN Unchanged(hp, items, "ValueError", "usage")
    ELSE ShowBirthdayFound(hp, items, find(items, args[1]))

\* lines 333-351: the message for what get_upcoming_birthdays gave
BirthdaysMessage(hp, items, td, out) ==
    IF out.kind # "ok" THEN Unchanged(hp, items, out.kind, "date_out_of_range")
    ELSE IF out.output_list = <<>>
    THEN Unchanged(hp, items, "ok", IF Weekday(td) = 0 THEN "none_this_week" ELSE "none_next_week")
    ELSE Unchanged(hp, items, "ok", "report")

\* birthdays
birthdays(args, hp, items, td) ==
    IF Len(args) # 0 THEN Unchanged(hp, items, "ValueError", "usage")
    ELSE BirthdaysMessage(hp, items, td, get_upcoming_birthdays(items, hp, td))

Handle(command, args) ==
    CASE command = "add" -> add_contact(args, heap, book)
      [] command = "change" -> change_contact(args, heap, book)
      [] command = "phone" -> show_phone(args, heap, book)
      [] command = "add-birthday" -> add_birthday_cmd(args, heap, book)
      [] command = "show-birthday" -> show_birthday(args, heap, book)
      [] command = "birthdays" -> birthdays(args, heap, book, today)

HandlerReturns(command, args, out) ==
    /\ heap' = out.heap
    /\ book' = out.book
    /\ call' = [op |-> command, rec |-> 0, args |-> args]
    /\ ret' = [kind |-> out.kind, val |-> out.val]
    /\ pre' = Snapshot
    /\ UNCHANGED <<today, ticks>>

\* main, waiting at input(), reads a line with that command and those arguments and
\* calls the handler
Command(command, args) ==
    /\ call = Idle
    /\ HandlerReturns(command, args, Handle(command, args))

\* main prints what the handler returned and goes back to input()
Prompt ==
    /\ call # Idle
    /\ call' = Idle
    /\ ret' = NoRet
    /\ pre' = Snapshot
    /\ UNCHANGED <<heap, book, today, ticks>>

----------------------------------------------------------------------------
(* The book filled by commands, the days passing, and the birthday query *)

InitBirthdays == InitBook

NextBirthdays ==
    \/ \E n \in Names : Command("add", <<n, Rep("1", 10)>>)
    \/ \E n \in Names, b \in BirthdayStrs \cup BadBirthdayStrs : Command("add-birthday", <<n, b>>)
    \/ Command("birthdays", <<>>)
    \/ call = Idle /\ GetUpcomingBirthdays
    \/ Prompt
    \/ Tick

SpecBirthdays == InitBirthdays /\ [][NextBirthdays]_vars

Contacts == {heap[book[i].rec] : i \in 1..Len(book)}

IsLeapDay(dt) == dt.m = 2 /\ dt.d = 29

\* the report of the last call lists the name
Reported(name) ==
    /\ ret.kind = "ok"
    /\ \E g \in 1..Len(ret.val.output_list) :
          \E k \in 1..Len(ret.val.output_list[g].names) : ret.val.output_list[g].names[k] = name

TimesReported(name) ==
    Cardinality({gk \in (1..Len(ret.val.output_list)) \X (1..Len(book)) :
                    /\ gk[2] <= Len(ret.val.output_list[gk[1]].names)
                    /\ ret.val.output_list[gk[1]].names[gk[2]] = name})

\* the next occurrence of a month and day that exists in every year
NextOccurrence(bday, td) ==
    IF DateLess([y |-> td.y, m |-> bday.m, d |-> bday.d], td)
    THEN [y |-> td.y + 1, m |-> bday.m, d |-> bday.d]
    ELSE [y |-> td.y, m |-> bday.m, d |-> bday.d]

\* C5: a contact is in the report of get_upcoming_birthdays if and only if it has a
\* birthday whose next occurrence is d days after today with 0 <= d < 7, and then it
\* is listed once; a contact without a birthday is never listed. (Stated for the
\* contacts whose month and day exist in every year.)
C5_ReportedIffInWindow ==
    call.op = "get_upcoming_birthdays" =>
        \A c \in Contacts :
            /\ c.birthday = None => ~Reported(c.name)
            /\ (c.birthday # None /\ ~IsLeapDay(c.birthday)) =>
                  /\ Reported(c.name) <=>
                        (ToOrdinal(NextOccurrence(c.birthday, today)) - ToOrdinal(today)) \in 0..6
                  /\ Reported(c.name) => TimesReported(c.name) = 1

\* 1 January 2024, a Monday
AMonday == [y |-> 2024, m |-> 1, d |-> 1]

\* the weekday of a date counted from a known Monday: 0 = Monday .. 6 = Sunday
DayIndex(dt) == (ToOrdinal(dt) - ToOrdinal(AMonday)) % 7

ListedUnder(name, day) ==
    \E g \in 1..Len(ret.val.output_list) :
        /\ ret.val.output_list[g].day = day
        /\ \E k \in 1..Len(ret.val.output_list[g].names) : ret.val.output_list[g].names[k] = name

\* C6: for every contact get_upcoming_birthdays includes, the congratulation date is the
\* birthday occurrence plus 2 days when that is a Saturday, plus 1 day when it is a
\* Sunday, and the occurrence itself from Monday to Friday; the contact is listed under
\* the weekday of that date, a weekend birthday under Monday; no Saturday or Sunday
\* group is produced and no included contact is dropped.
C6_WeekendShift ==
    (call.op = "get_upcoming_birthdays" /\ ret.kind = "ok") =>
        /\ \A i \in 1..Len(ret.val.upcoming) :
              LET e == ret.val.upcoming[i]
                  c == CHOOSE x \in Contacts : x.name = e.name
                  occ == NextOccurrence(c.birthday, today)
                  shift == ToOrdinal(e.congratulation_date) - ToOrdinal(occ)
              IN /\ DayIndex(occ) = 5 => shift = 2
                 /\ DayIndex(occ) = 6 => shift = 1
                 /\ DayIndex(occ) \in 0..4 => shift = 0
                 /\ e.congratulation_weekday = DayNames[DayIndex(e.congratulation_date) + 1]
                 /\ ListedUnder(e.name, e.congratulation_weekday)
                 /\ DayIndex(occ) \in {5, 6} => ListedUnder(e.name, "Monday")
        /\ \A g \in 1..Len(ret.val.output_list) :
              ret.val.output_list[g].day \notin {"Saturday", "Sunday"}

\* C6 witness: a report that lists under Monday one contact whose birthday falls on a
\* Saturday and one whose birthday falls on a Sunday
C6_Witness ==
    /\ call.op = "get_upcoming_birthdays"
    /\ ret.kind = "ok"
    /\ \E c1, c2 \in Contacts :
          /\ c1.birthday # None /\ c2.birthday # None
          /\ DayIndex(NextOccurrence(c1.birthday, today)) = 5
          /\ DayIndex(NextOccurrence(c2.birthday, today)) = 6
          /\ ListedUnder(c1.name, "Monday")
          /\ ListedUnder(c2.name, "Monday")

HasLeapDayContact == \E c \in Contacts : c.birthday # None /\ IsLeapDay(c.birthday)

QueryMade == call.op = "get_upcoming_birthdays" \/ (call.op = "birthdays" /\ call.args = <<>>)

Feb29(y) == [y |-> y, m |-> 2, d |-> 29]

\* the year the claim moves the birthday into: by month and day, 29 February is
\* before today from 1 March on
TargetYear == IF DateLess(Feb29(today.y), today) THEN today.y + 1 ELSE today.y

C10_ReportedOnCongratulationDate ==
    (call.op = "get_upcoming_birthdays" /\ ret.kind = "ok") =>
        \A c \in Contacts :
            (/\ c.birthday # None
             /\ ~IsLeapDay(c.birthday)
             /\ \E y \in {today.y - 1, today.y} :
                    CongratsDate([y |-> y, m |-> c.birthday.m, d |-> c.birthday.d]) = today)
            => Reported(c.name)

----------------------------------------------------------------------------
(* The Birthday field alone: construction from a string and rendering *)

DayToks == {<<"0", "1">>, <<"1">>, <<"1", "3">>, <<"2", "9">>, <<"3", "1">>, <<"3", "2">>,
            <<"0", "0">>, <<" ", "1">>}

MonthToks == {<<"0", "1">>, <<"1">>, <<"0", "2">>, <<"2">>, <<"1", "2">>, <<"1", "3">>, <<"0", "0">>}

YearToks == {<<"2", "0", "2", "4">>, <<"2", "0", "2", "3">>, <<"0", "9", "9", "9">>,
             <<"2", "4">>, <<"2", "0", "2", "4", "5">>, <<"0", "0", "0", "0">>}

Seps == {<<".">>, <<"-">>}

DateInputs ==
    {<<>>} \cup {d \o s1 \o m \o s2 \o y :
                    d \in DayToks, s1 \in Seps, m \in MonthToks, s2 \in Seps, y \in YearToks}

Rendered(s, value, padY) ==
    /\ call' = [op |-> "Birthday", rec |-> 0, args |-> <<s>>]
    /\ ret' = IF value = None THEN [kind |-> "ValueError", val |-> <<>>]
              ELSE [kind |-> "ok", val |-> BirthdayStr(value, padY)]
    /\ pre' = Snapshot
    /\ UNCHANGED <<heap, book, today, ticks>>

\* str(Birthday(s)): the string rendered, or the ValueError of the constructor
BirthdayRoundTrip(s, padY) == Rendered(s, Strptime(s), padY)

NextField == \E s \in DateInputs, padY \in BOOLEAN : BirthdayRoundTrip(s, padY)

SpecField == InitBook /\ [][NextField]_vars

\* the date a string in the pattern DD.MM.YYYY (two digits, two digits, four digits)
\* names, None when the string is not in the pattern or names no date
DateOfPattern(s) ==
    IF /\ Len(s) = 10
       /\ \A i \in {1, 2, 4, 5, 7, 8, 9, 10} : s[i] \in AsciiDigits
       /\ s[3] = "." /\ s[6] = "."
       /\ IsDate(ToInt(Sub(s, 7, 10)), ToInt(Sub(s, 4, 5)), ToInt(Sub(s, 1, 2)))
    THEN [y |-> ToInt(Sub(s, 7, 10)), m |-> ToInt(Sub(s, 4, 5)), d |-> ToInt(Sub(s, 1, 2))]
    ELSE None

\* C7: for every valid DD.MM.YYYY string s, Birthday(s) succeeds and str(Birthday(s))
\* is s; for every string that is not in the pattern, or names no calendar date,
\* constructing Birthday fails.
C7_BirthdayRoundTrip ==
    call.op = "Birthday" =>
        IF DateOfPattern(call.args[1]) # None
        THEN ret = [kind |-> "ok", val |-> call.args[1]]
        ELSE ret.kind = "ValueError"

----------------------------------------------------------------------------
(* The command loop *)

Commands == {"add", "change", "phone", "add-birthday", "show-birthday", "birthdays"}

Tokens == {Rep("1", 10), Rep("2", 10), Rep("1", 9), DMY(29, 2, 2000), DMY(31, 2, 2024)}

\* the argument lists of a command line: nothing, or a name and up to MaxArgs - 1 words
ArgLists ==
    {<<>>} \cup UNION {{<<n>> \o t : n \in Names, t \in [1..k -> Tokens]} : k \in 0..(MaxArgs - 1)}

NextCLI ==
    \/ \E args \in ArgLists : Command("add", args)
    \/ \E args \in ArgLists : Command("change", args)
    \/ \E args \in ArgLists : Command("phone", args)
    \/ \E args \in ArgLists : Command("add-birthday", args)
    \/ \E args \in ArgLists : Command("show-birthday", args)
    \/ \E args \in ArgLists : Command("birthdays", args)
    \/ Prompt

SpecCLI == InitBook /\ [][NextCLI]_vars

\* what the book holds: for each name its phones and its birthday
BookView(hp, items) ==
    [n \in Keys(items) |-> [phones |-> hp[find(items, n)].phones,
                            birthday |-> hp[find(items, n)].birthday]]

\* C9: when a command handler reports an error, the address book after the command is
\* the address book before it: the same names, the same phones and birthday for each.
\* In particular an add with an invalid phone for a new name creates no contact.
C9_ErrorLeavesBookUnchanged ==
    (call.op \in Commands /\ ret.kind # "ok") =>
        /\ Keys(book) = Keys(pre.book)
        /\ BookView(heap, book) = BookView(pre.heap, pre.book)

====
